---- MODULE Spec2Model ----
(***************************************************************************)
(* Model of packages/@tailwindcss-upgrade/src/codemods/template/           *)
(* migrate-arbitrary-utilities.ts: the signature-preserving rewrite of     *)
(* arbitrary utilities, its signature index, its base-token cache and its  *)
(* spacing-multiplier resolver.                                            *)
(*                                                                         *)
(* Text is a sequence of lexical symbols (strings); a candidate is a       *)
(* record.  The design system (parser, printer, signatures, computed CSS,  *)
(* theme, class list) is the collaborator of spec.md section 6.            *)
(***************************************************************************)
EXTENDS Integers, Sequences, FiniteSets, TLC

VARIABLES ds, preComputedUtilities, spacing, baseReplacementsCache, last

vars == <<ds, preComputedUtilities, spacing, baseReplacementsCache, last>>

----------------------------------------------------------------------------
(* Bounds of the model *)

\* Largest number a dimension of the model carries ("16px" ...).
MaxDim == 16

\* Evaluation budget of the two recursions of the program (canonicalization
\* re-entry, modifier-stripped descent): a call that would exceed it is
\* recorded as diverged.
MaxFuel == 3

----------------------------------------------------------------------------
(* Generic helpers on sequences of symbols *)

Null == "null"
Undefined == "undefined"

RECURSIVE TrimLeft(_)
TrimLeft(s) == IF s # <<>> /\ Head(s) = " " THEN TrimLeft(Tail(s)) ELSE s

RECURSIVE TrimRight(_)
TrimRight(s) ==
  IF s # <<>> /\ s[Len(s)] = " " THEN TrimRight(SubSeq(s, 1, Len(s) - 1)) ELSE s

Replace(s, from, to) == [i \in 1..Len(s) |-> IF s[i] = from THEN to ELSE s[i]]

Reverse(s) == [i \in 1..Len(s) |-> s[Len(s) + 1 - i]]

RECURSIVE Flatten(_)
Flatten(ss) == IF ss = <<>> THEN <<>> ELSE Head(ss) \o Flatten(Tail(ss))

StartsWith(s, p) == Len(s) >= Len(p) /\ SubSeq(s, 1, Len(p)) = p

\* Symbols that cannot be (part of) a bare word.
Punctuation ==
  {"[", "]", ":", "/", "!", "-", "_", " ", "(", ")", ",", ";", "var(", "calc(",
   "*", "{", "}", "[object Object]"}

IsWord(sym) == sym \notin Punctuation

----------------------------------------------------------------------------
(* Candidates (tailwindcss/src/candidate.ts) *)

NoValue == [kind |-> "none", value |-> <<>>]
NoModifier == [kind |-> "none", value |-> ""]

StaticCandidate(root, variants, important) ==
  [kind |-> "static", root |-> root, property |-> "", value |-> NoValue,
   modifier |-> NoModifier, variants |-> variants, important |-> important]

FunctionalCandidate(root, value, modifier, variants, important) ==
  [kind |-> "functional", root |-> root, property |-> "", value |-> value,
   modifier |-> modifier, variants |-> variants, important |-> important]

ArbitraryCandidate(property, value, modifier, variants, important) ==
  [kind |-> "arbitrary", root |-> <<>>, property |-> property,
   value |-> [kind |-> "arbitrary", value |-> value],
   modifier |-> modifier, variants |-> variants, important |-> important]

VariantNames == {"hover", "focus"}

\* printModifier: "" for no modifier, "/50" for a named one, "/[50]" for an
\* arbitrary one.
PrintModifier(modifier) ==
  CASE modifier.kind = "none" -> <<>>
    [] modifier.kind = "named" -> <<"/", modifier.value>>
    [] OTHER -> <<"/", "[", modifier.value, "]">>

\* Printing an arbitrary value drops the whitespace around it and writes the
\* whitespace inside it as underscores.
EncodeArbitraryValue(value) == Replace(TrimRight(TrimLeft(value)), " ", "_")

\* Parsing an arbitrary value reads underscores as whitespace.
DecodeArbitraryValue(raw) == Replace(raw, "_", " ")

PrintBase(c) ==
  CASE c.kind = "static" -> c.root
    [] c.kind = "functional" ->
         c.root
           \o (CASE c.value.kind = "none" -> <<>>
                 [] c.value.kind = "named" -> <<"-">> \o c.value.value
                 [] OTHER -> <<"-", "[">> \o EncodeArbitraryValue(c.value.value) \o <<"]">>)
           \o PrintModifier(c.modifier)
    [] OTHER ->
         <<"[", c.property, ":">> \o EncodeArbitraryValue(c.value.value) \o <<"]">>
           \o PrintModifier(c.modifier)

\* designSystem.printCandidate: prefix, variants (outermost first), base,
\* important mark.  candidate.variants is kept innermost first.
DsPrintCandidate(d, c) ==
  (IF d.prefix # "" THEN <<d.prefix, ":">> ELSE <<>>)
    \o Flatten([i \in 1..Len(c.variants) |-> <<Reverse(c.variants)[i], ":">>])
    \o PrintBase(c)
    \o (IF c.important THEN <<"!">> ELSE <<>>)

----------------------------------------------------------------------------
(* Numbers and dimensions (utils/dimension.ts, utils/infer-data-type.ts) *)

\* Largest whole number with a textual form in the model; numbers are held
\* in quarters, the step of a spacing multiplier.
MaxNumber == 50

Units == {"px", "rem", "%"}

NumberText(q) ==
  LET whole == ToString(q \div 4)
  IN  CASE q % 4 = 0 -> whole
        [] q % 4 = 1 -> whole \o ".25"
        [] q % 4 = 2 -> whole \o ".5"
        [] OTHER -> whole \o ".75"

NumberTable == [q \in 0..(4 * MaxNumber) |-> NumberText(q)]

\* The number a text spells, for the texts that spell one.
NumberIndex ==
  [sym \in {NumberTable[q] : q \in DOMAIN NumberTable} |->
     CHOOSE q \in DOMAIN NumberTable : NumberTable[q] = sym]

\* isValidSpacingMultiplier: a non-negative number that is a multiple of 0.25.
IsValidSpacingMultiplier(sym) == sym \in DOMAIN NumberIndex

NumberOf(sym) == NumberIndex[sym]

DimensionText(n, unit) == ToString(n) \o unit

DimensionTable == [d \in (0..MaxDim) \X Units |-> DimensionText(d[1], d[2])]

DimensionIndex ==
  [sym \in {DimensionTable[d] : d \in DOMAIN DimensionTable} |->
     CHOOSE d \in DOMAIN DimensionTable : DimensionTable[d] = sym]

\* dimensions.get: [value, unit] of a dimension, null for anything else.
Dimensions(sym) == IF sym \in DOMAIN DimensionIndex THEN DimensionIndex[sym] ELSE Null

\* The quotient myValue / value of two numbers as JavaScript prints it.
Quotient(myValue, value) ==
  IF value # 0 /\ (4 * myValue) % value = 0 /\ (4 * myValue) \div value <= 4 * MaxNumber
  THEN NumberText((4 * myValue) \div value)
  ELSE ToString(myValue) \o "/" \o ToString(value)

----------------------------------------------------------------------------
(* The design system: parser (tailwindcss/src/candidate.ts) *)

StaticNames(d) == {d.statics[i].name : i \in 1..Len(d.statics)}

FunctionalRoots(d) == {d.roots[i].root : i \in 1..Len(d.roots)}

\* designSystem.utilities.keys('functional')
FunctionalKeys(d) == [i \in 1..Len(d.roots) |-> d.roots[i].root]

RECURSIVE ParseVariants(_, _)
ParseVariants(text, acc) ==
  IF Len(text) >= 2 /\ text[2] = ":" /\ text[1] # "["
  THEN IF text[1] \in VariantNames
       THEN ParseVariants(SubSeq(text, 3, Len(text)), <<text[1]>> \o acc)
       ELSE [ok |-> FALSE, variants |-> <<>>, rest |-> <<>>]
  ELSE [ok |-> TRUE, variants |-> acc, rest |-> text]

SplitImportant(base) ==
  IF base # <<>> /\ base[Len(base)] = "!"
  THEN [important |-> TRUE, base |-> SubSeq(base, 1, Len(base) - 1)]
  ELSE [important |-> FALSE, base |-> base]

SplitModifier(base) ==
  LET n == Len(base)
  IN  IF n >= 3 /\ base[n - 1] = "/" /\ IsWord(base[n])
      THEN [ok |-> TRUE, base |-> SubSeq(base, 1, n - 2),
            modifier |-> [kind |-> "named", value |-> base[n]]]
      ELSE IF n >= 5 /\ base[n - 3] = "/" /\ base[n - 2] = "[" /\ base[n] = "]"
                /\ IsWord(base[n - 1])
      THEN [ok |-> TRUE, base |-> SubSeq(base, 1, n - 4),
            modifier |-> [kind |-> "arbitrary", value |-> base[n - 1]]]
      ELSE [ok |-> \A i \in 1..n : base[i] # "/", base |-> base,
            modifier |-> NoModifier]

WellFormedValue(raw) ==
  /\ raw # <<>>
  /\ \A i \in 1..Len(raw) : raw[i] \notin {"[", "]", "/", "!", "[object Object]"}

\* The reading of a base by its shape: arbitrary property, or functional
\* utility with no value, a named value or an arbitrary value.
ReadShape(d, b, n, modifier, variants, important) ==
  IF n = 0 THEN <<>>
  ELSE IF b[1] = "["
  THEN IF n >= 5 /\ b[n] = "]" /\ IsWord(b[2]) /\ b[3] = ":"
            /\ WellFormedValue(SubSeq(b, 4, n - 1))
       THEN <<ArbitraryCandidate(b[2], DecodeArbitraryValue(SubSeq(b, 4, n - 1)),
                                 modifier, variants, important)>>
       ELSE <<>>
  ELSE IF <<b[1]>> \notin FunctionalRoots(d) THEN <<>>
  ELSE IF n = 1
  THEN <<FunctionalCandidate(<<b[1]>>, NoValue, modifier, variants, important)>>
  ELSE IF b[2] # "-" THEN <<>>
  ELSE IF n >= 5 /\ b[3] = "[" /\ b[n] = "]" /\ WellFormedValue(SubSeq(b, 4, n - 1))
  THEN <<FunctionalCandidate(
           <<b[1]>>,
           [kind |-> "arbitrary", value |-> DecodeArbitraryValue(SubSeq(b, 4, n - 1))],
           modifier, variants, important)>>
  ELSE IF n = 3 /\ IsWord(b[3])
  THEN <<FunctionalCandidate(<<b[1]>>, [kind |-> "named", value |-> <<b[3]>>],
                             modifier, variants, important)>>
  ELSE <<>>

ReadBase(d, sm, variants, important) ==
  IF ~sm.ok THEN <<>>
  ELSE ReadShape(d, sm.base, Len(sm.base), sm.modifier, variants, important)

ParseStructural(d, base, variants, important) ==
  ReadBase(d, SplitModifier(base), variants, important)

\* The text after the prefix of the design system, when it has one.
Unprefixed(d, text) ==
  IF d.prefix = "" THEN [ok |-> TRUE, rest |-> text]
  ELSE IF Len(text) >= 3 /\ text[1] = d.prefix /\ text[2] = ":"
  THEN [ok |-> TRUE, rest |-> SubSeq(text, 3, Len(text))]
  ELSE [ok |-> FALSE, rest |-> <<>>]

ParseBase(d, variants, si) ==
  IF si.base = <<>> THEN <<>>
  ELSE (IF si.base \in StaticNames(d)
        THEN <<StaticCandidate(si.base, variants, si.important)>>
        ELSE <<>>)
       \o ParseStructural(d, si.base, variants, si.important)

ParseVaried(d, pv) ==
  IF ~pv.ok THEN <<>> ELSE ParseBase(d, pv.variants, SplitImportant(pv.rest))

ParseUnprefixed(d, unprefixed) ==
  IF ~unprefixed.ok THEN <<>> ELSE ParseVaried(d, ParseVariants(unprefixed.rest, <<>>))

\* designSystem.parseCandidate: the readings of a text, possibly several,
\* possibly none.  A base registered as a static utility reads as that
\* utility first; its reading by shape follows.
DsParseCandidate(d, text) == ParseUnprefixed(d, Unprefixed(d, text))

----------------------------------------------------------------------------
(* The design system: computed declarations and signatures *)

Percent(modifierValue) == IF modifierValue = "half" THEN "50%" ELSE modifierValue \o "%"

WithOpacity(value, modifier) ==
  IF modifier.kind = "none" THEN value ELSE value \o <<"/", Percent(modifier.value)>>

StaticCss(d, root) ==
  IF root \in StaticNames(d)
  THEN (CHOOSE s \in {d.statics[i] : i \in 1..Len(d.statics)} : s.name = root).css
  ELSE <<>>

RootDef(d, root) == CHOOSE r \in {d.roots[i] : i \in 1..Len(d.roots)} : r.root = root

CompileValue(d, r, c, v) ==
  CASE r.type = "spacing" ->
         IF c.modifier.kind # "none" THEN <<>>
         ELSE IF c.value.kind = "arbitrary" THEN <<[prop |-> r.prop, value |-> v]>>
         ELSE IF c.value.kind = "named" /\ IsValidSpacingMultiplier(v[1])
                 /\ "--spacing" \in DOMAIN d.theme
         THEN <<[prop |-> r.prop,
                 value |-> <<"calc(", "var(", "--spacing", ")", "*", v[1], ")">>]>>
         ELSE <<>>
    [] r.type = "color" ->
         IF c.value.kind = "arbitrary"
         THEN <<[prop |-> r.prop, value |-> WithOpacity(v, c.modifier)]>>
         ELSE IF c.value.kind = "named" /\ ("--color-" \o v[1]) \in DOMAIN d.theme
         THEN <<[prop |-> r.prop,
                 value |-> WithOpacity(<<"var(", "--color-" \o v[1], ")">>, c.modifier)]>>
         ELSE <<>>
    [] OTHER ->
         \* a utility that also records its value in a variable of its own
         IF c.value.kind = "arbitrary" /\ c.modifier.kind = "none"
         THEN <<[prop |-> r.var, value |-> v], [prop |-> r.prop, value |-> v]>>
         ELSE <<>>

CompileFunctional(d, r, c) == CompileValue(d, r, c, TrimRight(TrimLeft(c.value.value)))

\* The declarations a candidate compiles to; none when it does not compile.
Compile(d, c) ==
  CASE c.kind = "static" -> StaticCss(d, c.root)
    [] c.kind = "arbitrary" ->
         <<[prop |-> c.property,
            value |-> WithOpacity(TrimRight(TrimLeft(c.value.value)), c.modifier)]>>
    [] OTHER -> CompileFunctional(d, RootDef(d, c.root), c)

\* A class name as the design system reads it: with the prefix when the
\* design system has one.
WithPrefix(d, input) ==
  IF d.prefix # "" /\ ~StartsWith(input, <<d.prefix, ":">>)
  THEN <<d.prefix, ":">> \o input
  ELSE input

CompileAll(d, parses) == Flatten([i \in 1..Len(parses) |-> Compile(d, parses[i])])

Declarations(d, text) == CompileAll(d, DsParseCandidate(d, text))

RenderCss(decls) ==
  Flatten([i \in 1..Len(decls) |-> <<decls[i].prop, ":">> \o decls[i].value \o <<";">>])

Block(decls) == IF decls = <<>> THEN <<>> ELSE <<"{">> \o RenderCss(decls) \o <<"}">>

\* designSystem.candidatesToCss([text]).join('\n')
CandidatesToCss(d, text) == Block(Declarations(d, text))

IsCustomProperty(prop) == prop \in {"--tw-tone", "--brand", "--x", "--y"}

\* Theme variables are replaced by their values, and the spacing calculation
\* is carried out, before two computed outputs are compared.
RECURSIVE ResolveValue(_, _)
ResolveValue(d, v) ==
  IF v = <<>> THEN <<>>
  ELSE IF Len(v) >= 7 /\ SubSeq(v, 1, 5) = <<"calc(", "var(", "--spacing", ")", "*">>
          /\ v[7] = ")" /\ "--spacing" \in DOMAIN d.theme
          /\ Dimensions(d.theme["--spacing"][1]) # Null
          /\ IsValidSpacingMultiplier(v[6])
          /\ (Dimensions(d.theme["--spacing"][1])[1] * NumberOf(v[6])) % 4 = 0
  THEN <<DimensionText((Dimensions(d.theme["--spacing"][1])[1] * NumberOf(v[6])) \div 4,
                       Dimensions(d.theme["--spacing"][1])[2])>>
         \o ResolveValue(d, SubSeq(v, 8, Len(v)))
  ELSE IF Len(v) >= 3 /\ v[1] = "var(" /\ v[3] = ")" /\ v[2] \in DOMAIN d.theme
  THEN d.theme[v[2]] \o ResolveValue(d, SubSeq(v, 4, Len(v)))
  ELSE <<Head(v)>> \o ResolveValue(d, Tail(v))

NoSignature == <<>>

IsString(signature) == signature # NoSignature

\* computeUtilitySignature.get(ds).get(text): the fingerprint of the computed
\* declarations of a text, or a non-string when it has none.
Fingerprint(d, kept) ==
  RenderCss([i \in 1..Len(kept) |->
               [prop |-> kept[i].prop, value |-> ResolveValue(d, kept[i].value)]])

Signature(d, text) ==
  Fingerprint(d, SelectSeq(Declarations(d, WithPrefix(d, text)),
                           LAMBDA decl : ~IsCustomProperty(decl.prop)))

\* designSystem.getClassList(): the named utilities with their modifiers.
ClassList(d) ==
  [i \in 1..Len(d.statics) |-> [name |-> d.statics[i].name, modifiers |-> <<>>]]
    \o Flatten([i \in 1..Len(d.roots) |->
         CASE d.roots[i].type = "spacing" ->
                [j \in 1..Len(d.spacingScale) |->
                   [name |-> d.roots[i].root \o <<"-", d.spacingScale[j]>>,
                    modifiers |-> <<>>]]
           [] d.roots[i].type = "color" ->
                [j \in 1..Len(d.colors) |->
                   [name |-> d.roots[i].root \o <<"-", d.colors[j]>>,
                    modifiers |-> d.colorModifiers]]
           [] OTHER -> <<>>])

----------------------------------------------------------------------------
(* migrate-arbitrary-utilities.ts: the caches *)

\* A DefaultMap<string, string[]> read at a key: the list stored there, the
\* default [] otherwise.
Bucket(lookup, signature) ==
  IF signature \in DOMAIN lookup THEN lookup[signature] ELSE <<>>

\* A variant of the index that keeps one class name per signature.
PushFirstOnly(lookup, signature, className) ==
  IF signature \in DOMAIN lookup
  THEN lookup
  ELSE lookup @@ (signature :> <<className>>)

Push(lookup, signature, className) ==
  IF signature \in DOMAIN lookup
  THEN [lookup EXCEPT ![signature] = Append(@, className)]
  ELSE lookup @@ (signature :> <<className>>)

\* Lines 24-25 and 37-38: a name is filed under its signature when the
\* signature is a string.
PushSigned(lookup, signature, className) ==
  IF ~IsString(signature) THEN lookup ELSE Push(lookup, signature, className)

\* Lines 31-38: one modifier of a class; a modifier that is a number is not
\* indexed.
IndexModifier(d, lookup, classNameWithModifier, modifier) ==
  IF IsValidSpacingMultiplier(modifier) THEN lookup
  ELSE PushSigned(lookup, Signature(d, classNameWithModifier), classNameWithModifier)

\* Lines 27-39: the modifiers of one class, in order.
RECURSIVE IndexModifiers(_, _, _, _)
IndexModifiers(d, lookup, className, modifiers) ==
  IF modifiers = <<>> THEN lookup
  ELSE IndexModifiers(
         d,
         IndexModifier(d, lookup, className \o <<"/", Head(modifiers)>>, Head(modifiers)),
         className, Tail(modifiers))

\* Lines 23-39: one class of the class list; without a string signature
\* neither the class nor its modifiers are indexed.
IndexClass(d, lookup, class, signature) ==
  IF ~IsString(signature) THEN lookup
  ELSE IndexModifiers(d, Push(lookup, signature, class.name), class.name, class.modifiers)

\* Lines 22-40: the classes of the class list, in order.
RECURSIVE IndexClasses(_, _, _)
IndexClasses(d, lookup, classes) ==
  IF classes = <<>> THEN lookup
  ELSE IndexClasses(
         d, IndexClass(d, lookup, Head(classes), Signature(d, Head(classes).name)),
         Tail(classes))

\* preComputedUtilities (lines 18-43): signature -> class names, in class
\* list order.
ComputeUtilities(d) == IndexClasses(d, <<>>, ClassList(d))

\* spacing (lines 49-56): null without a parsable --spacing, else the
\* resolver of lines 58-66 over the base [value, unit].
ComputeSpacing(d) ==
  IF "--spacing" \notin DOMAIN d.theme
  THEN [table |-> FALSE, value |-> 0, unit |-> ""]
  ELSE LET parsed == Dimensions(d.theme["--spacing"][1])
       IN  IF parsed = Null THEN [table |-> FALSE, value |-> 0, unit |-> ""]
           ELSE [table |-> TRUE, value |-> parsed[1], unit |-> parsed[2]]

\* Lines 58-66: the multiplier of an input, as text, or null.
SpacingTableGet(sp, input) ==
  LET parsed == IF Len(input) = 1 THEN Dimensions(input[1]) ELSE Null
  IN  IF parsed = Null THEN Null
      ELSE IF parsed[2] # sp.unit THEN Null
      ELSE Quotient(parsed[1], sp.value)

\* Line 219: spacing.get(designSystem)?.get(value)
SpacingMultiplier(sp, value) ==
  IF ~sp.table THEN Undefined ELSE SpacingTableGet(sp, value)

\* Line 240: spacingMultiplier !== null
HasSpacingMultiplier(spacingMultiplier) == spacingMultiplier # Null

----------------------------------------------------------------------------
(* migrate-arbitrary-utilities.ts: parseCandidate, allVariablesAreUsed *)

\* parseCandidate (lines 278-284)
parseCandidate(d, input) ==
  DsParseCandidate(
    d,
    IF d.prefix # "" /\ ~StartsWith(input, <<d.prefix, ":">>)
    THEN <<d.prefix, ":">> \o input
    ELSE input)

IsVariableName(sym) ==
  sym \in {"--x", "--y", "--brand", "--danger", "--tw-tone", "--spacing", "--color-red",
           "--color-rouge"}

\* value.includes('var(--')
IncludesVar(value) ==
  \E i \in 1..(Len(value) - 1) : value[i] = "var(" /\ IsVariableName(value[i + 1])

\* The first argument of every var(...) node of a value, in walk order.
VarNodes(value) ==
  LET at == SelectSeq([i \in 1..Len(value) |-> i],
                      LAMBDA i : value[i] = "var(" /\ i < Len(value))
  IN  [k \in 1..Len(at) |-> value[at[k] + 1]]

\* new RegExp(`var\\(${variable}[,)]\\s*`).test(css)
RegExpTest(variable, css) ==
  \E j \in 1..(Len(css) - 2) :
    css[j] = "var(" /\ css[j + 1] = variable /\ css[j + 2] \in {",", ")"}

\* css.includes(`${variable}:`)
IncludesDefinition(variable, css) ==
  \E j \in 1..(Len(css) - 1) : css[j] = variable /\ css[j + 1] = ":"

\* A variant of the variable test that only asks for the reference.
VariableIsReferenced(variable, css) ==
  \E j \in 1..(Len(css) - 2) :
    css[j] = "var(" /\ css[j + 1] = variable /\ css[j + 2] \in {",", ")"}

\* Lines 325-331: the test one variable of the value must pass.
VariableIsSafe(variable, css) ==
  ~(~RegExpTest(variable, css) \/ IncludesDefinition(variable, css))

\* Lines 295-309: the value whose variables are checked; <<>> for none.
CheckedValue(candidate) ==
  IF candidate.kind = "functional" /\ candidate.value.kind = "arbitrary"
     /\ IncludesVar(candidate.value.value)
  THEN candidate.value.value
  ELSE IF candidate.kind = "arbitrary" /\ IncludesVar(candidate.value.value)
  THEN candidate.value.value
  ELSE <<>>

\* Lines 320-338: every var(...) of the value passes the test.
IsSafeMigration(variables, replacementAsCss) ==
  \A k \in 1..Len(variables) : VariableIsSafe(variables[k], replacementAsCss)

\* Lines 312-338
CheckValue(d, value, replacement) ==
  IF value = <<>> THEN TRUE
  ELSE IsSafeMigration(VarNodes(value),
                       CandidatesToCss(d, DsPrintCandidate(d, replacement)))

\* allVariablesAreUsed (lines 290-339)
allVariablesAreUsed(d, candidate, replacement) ==
  CheckValue(d, CheckedValue(candidate), replacement)

----------------------------------------------------------------------------
(* migrate-arbitrary-utilities.ts: tryReplacements *)

\* The candidates a text parses to, each with the step that made it and the
\* recursion level it was made at.
TagAll(parses, origin, level) ==
  [i \in 1..Len(parses) |-> [candidate |-> parses[i], origin |-> origin, level |-> level]]

Tagged(d, text, origin, level) == TagAll(parseCandidate(d, text), origin, level)

\* A variant of the stripping step that leaves the modifier in place.
CandidateKeepingModifier(candidate) == candidate

\* Line 189: { ...candidate, modifier: null }
CandidateWithoutModifier(candidate) == [candidate EXCEPT !.modifier = NoModifier]

\* Line 198: Object.assign({}, replacementCandidate, { modifier: candidate.modifier })
WithModifier(item, modifier) ==
  [item EXCEPT !.candidate = [item.candidate EXCEPT !.modifier = modifier]]

\* Lines 222-272: the texts one functional root contributes, in order.
RootTexts(root, value, modifier, spacingMultiplier) ==
  <<[text |-> root \o <<"-">> \o value, origin |-> "bare"]>>
    \o (IF modifier.kind # "none"
        THEN <<[text |-> root \o <<"-">> \o value \o <<"[object Object]">>,
                origin |-> "bareModifier"]>>
        ELSE <<>>)
    \o (IF HasSpacingMultiplier(spacingMultiplier)
        THEN <<[text |-> root \o <<"-", spacingMultiplier>>, origin |-> "spacing"]>>
               \o (IF modifier.kind # "none"
                   THEN <<[text |-> root \o <<"-", spacingMultiplier>>
                                      \o PrintModifier(modifier),
                           origin |-> "spacingModifier"]>>
                   ELSE <<>>)
        ELSE <<>>)
    \o <<[text |-> root \o <<"-", "[">> \o value \o <<"]">>, origin |-> "arbitrary"]>>
    \o (IF modifier.kind # "none"
        THEN <<[text |-> root \o <<"-", "[">> \o value \o <<"]">> \o PrintModifier(modifier),
                origin |-> "arbitraryModifier"]>>
        ELSE <<>>)

\* Lines 224-270: each text is parsed and its candidates are yielded.
YieldAll(d, texts, level) ==
  Flatten([k \in 1..Len(texts) |-> Tagged(d, texts[k].text, texts[k].origin, level)])

RootCandidates(d, root, value, modifier, spacingMultiplier, level) ==
  YieldAll(d, RootTexts(root, value, modifier, spacingMultiplier), level)

\* Lines 221-273: the loop over the functional roots.
ForRoots(d, roots, value, modifier, spacingMultiplier, level) ==
  Flatten([i \in 1..Len(roots) |->
             RootCandidates(d, roots[i], value, modifier, spacingMultiplier, level)])

\* Lines 211-274: functional-utility derivation.
Derivation(d, sp, candidate, level) ==
  ForRoots(d, FunctionalKeys(d), candidate.value.value, candidate.modifier,
           SpacingMultiplier(sp, candidate.value.value), level)

\* What a search that yields nothing reports.
Nothing(level) == [items |-> <<>>, derived |-> FALSE, diverged |-> FALSE, depth |-> level]

\* Lines 195-199: the candidates of the inner search with the modifier put
\* back.
Reattach(inner, modifier) ==
  [items |-> [i \in 1..Len(inner.items) |-> WithModifier(inner.items[i], modifier)],
   derived |-> inner.derived, diverged |-> inner.diverged, depth |-> inner.depth]

\* Lines 203-274: what follows the modifier-stripped search.
Own(d, sp, candidate, level, replacements, stripped) ==
  IF stripped.diverged THEN Nothing(level)
  ELSE IF Len(replacements) = 1
  THEN [Nothing(level) EXCEPT !.items = Tagged(d, replacements[1], "bucket", level)]
  ELSE IF candidate.value.kind = "none" THEN Nothing(level)
  ELSE [Nothing(level) EXCEPT !.items = Derivation(d, sp, candidate, level),
                              !.derived = TRUE]

Yielded(stripped, own) ==
  [items |-> stripped.items \o own.items,
   derived |-> stripped.derived \/ own.derived,
   diverged |-> stripped.diverged,
   depth |-> stripped.depth]

AfterStripped(d, sp, candidate, level, replacements, stripped) ==
  Yielded(stripped, Own(d, sp, candidate, level, replacements, stripped))

RECURSIVE tryReplacements(_, _, _, _, _, _)

\* Lines 193-200
StrippedSigned(d, lookup, sp, candidate, level, candidateWithoutModifier, targetSignatureWithoutModifier) ==
  IF ~IsString(targetSignatureWithoutModifier) THEN Nothing(level)
  ELSE IF level >= MaxFuel THEN [Nothing(level) EXCEPT !.diverged = TRUE]
  ELSE Reattach(tryReplacements(d, lookup, sp, targetSignatureWithoutModifier,
                                candidateWithoutModifier, level + 1),
                candidate.modifier)

\* Lines 189-192
StrippedSearch(d, lookup, sp, candidate, level, candidateWithoutModifier) ==
  StrippedSigned(d, lookup, sp, candidate, level, candidateWithoutModifier,
                 Signature(d, DsPrintCandidate(d, candidateWithoutModifier)))

\* Lines 188-201: the search with the modifier stripped.
Stripped(d, lookup, sp, candidate, level, replacements) ==
  IF Len(replacements) = 0 /\ candidate.modifier.kind # "none"
  THEN StrippedSearch(d, lookup, sp, candidate, level, CandidateWithoutModifier(candidate))
  ELSE Nothing(level)

\* Lines 180-274
FromBucket(d, lookup, sp, candidate, level, replacements) ==
  IF Len(replacements) > 1 THEN Nothing(level)
  ELSE AfterStripped(d, sp, candidate, level, replacements,
                     Stripped(d, lookup, sp, candidate, level, replacements))

\* tryReplacements (lines 169-275): the candidates the generator yields when
\* run to its end.
tryReplacements(d, lookup, sp, targetSignature, candidate, level) ==
  FromBucket(d, lookup, sp, candidate, level, Bucket(lookup, targetSignature))

----------------------------------------------------------------------------
(* migrate-arbitrary-utilities.ts: migrateArbitraryUtilities *)

\* A variant of the filter that lets every parse through.
IsEligibleAlways(c) == c.kind \in {"static", "functional", "arbitrary"}

\* Lines 79-84: a parse is skipped unless it is an arbitrary property or a
\* functional utility with an arbitrary value.
IsEligible(c) ==
  ~(c.kind # "arbitrary" /\ ~(c.kind = "functional" /\ c.value.kind = "arbitrary"))

\* Line 105
NeedsCanonicalization(canonicalizedCandidate, rawCandidate) ==
  canonicalizedCandidate # rawCandidate

\* A variant of the canonicalization step that returns the canonical text
\* without migrating it.
CanonicalizationReturns(canonicalizedCandidate) ==
  [kind |-> "return", out |-> canonicalizedCandidate]

\* Line 106: return migrateArbitraryUtilities(designSystem, _userConfig,
\* canonicalizedCandidate)
CanonicalizationStep(canonicalizedCandidate) ==
  [kind |-> "reenter", out |-> canonicalizedCandidate]

\* A variant of the signature test that lets a non-string through.
NotAStringNever(signature) == signature # signature

\* Line 135: typeof targetSignature !== 'string'
NotAString(signature) == ~IsString(signature)

\* Lines 117-119
TargetCandidate(candidate) == [candidate EXCEPT !.important = FALSE, !.variants = <<>>]

\* A variant of the cache hit that prints the stored entry as it is.
CacheHitUnchanged(cached, candidate) ==
  [cached EXCEPT !.variants = cached.variants, !.important = cached.important]

\* Lines 123-128: the clone of the cached replacement with the variants and
\* the important flag of the current candidate.
CacheHitTarget(cached, candidate) ==
  [cached EXCEPT !.variants = candidate.variants, !.important = candidate.important]

\* A variant of the signature comparison that takes every candidate.
SignatureAcceptedAlways(replacementSignature, targetSignature) ==
  replacementSignature = replacementSignature /\ targetSignature = targetSignature

\* Lines 140-143
SignatureAccepted(replacementSignature, targetSignature) ==
  ~(replacementSignature # targetSignature)

\* Lines 139-148: a candidate of the search is taken when its printed text
\* has the target signature and it keeps the variables of the original.
IsValidReplacement(d, candidate, targetSignature, replacementCandidate) ==
  /\ SignatureAccepted(Signature(d, DsPrintCandidate(d, replacementCandidate)),
                       targetSignature)
  /\ allVariablesAreUsed(d, candidate, replacementCandidate)

\* Lines 150-157: the object put in the cache is the object whose variants
\* and important flag are assigned next, so the entry carries them.
CachedReplacement(replacementCandidate, candidate) ==
  [replacementCandidate EXCEPT !.variants = candidate.variants,
                               !.important = candidate.important]

\* Line 160: Object.assign(candidate, replacementCandidate); a field the
\* replacement does not own keeps the candidate's value.
ObjectAssign(candidate, replacementCandidate) ==
  [kind |-> replacementCandidate.kind,
   root |-> IF replacementCandidate.kind = "arbitrary" THEN candidate.root
            ELSE replacementCandidate.root,
   property |-> IF replacementCandidate.kind = "arbitrary"
                THEN replacementCandidate.property ELSE candidate.property,
   value |-> IF replacementCandidate.kind = "static" THEN candidate.value
             ELSE replacementCandidate.value,
   modifier |-> IF replacementCandidate.kind = "static"
                   /\ replacementCandidate.modifier = NoModifier
                THEN candidate.modifier ELSE replacementCandidate.modifier,
   variants |-> replacementCandidate.variants,
   important |-> replacementCandidate.important]

\* What is recorded of one iteration of the loop over the parses.
Visit(index, outcome, candidate) ==
  [index |-> index, outcome |-> outcome, candidate |-> candidate, key |-> <<>>,
   signature |-> NoSignature, tried |-> <<>>, derived |-> FALSE, depth |-> 0,
   replacement |-> candidate]

Searched(i, candidate, targetCandidateString, targetSignature, search) ==
  [Visit(i, "exhausted", candidate) EXCEPT
     !.key = targetCandidateString, !.signature = targetSignature,
     !.tried = search.items, !.derived = search.derived, !.depth = search.depth]

\* Line 153: baseReplacementsCache.get(designSystem).set(key, value)
CacheSet(cacheMap, key, value) ==
  IF key \in DOMAIN cacheMap THEN [cacheMap EXCEPT ![key] = value]
  ELSE cacheMap @@ (key :> value)

RECURSIVE MigrateParses(_, _, _, _, _, _, _, _)

\* continue (lines 85, 135 and the end of the search at 164): the next parse.
Continue(c, visit) ==
  MigrateParses(c.d, c.lookup, c.sp, c.cacheMap, c.rawCandidate, c.parses, c.i + 1,
                Append(c.visits, visit))

\* Lines 150-163: the replacement is stored, given the variants and the
\* important flag of the candidate, and printed.
Take(c, candidate, searched, tried, stored) ==
  [kind |-> "return",
   out |-> DsPrintCandidate(c.d, ObjectAssign(candidate, stored)),
   cache |-> CacheSet(c.cacheMap, searched.key, stored),
   visits |-> Append(c.visits,
                [searched EXCEPT !.outcome = "accepted", !.tried = tried,
                                 !.replacement = tried[Len(tried)].candidate])]

\* Lines 138-164: the first candidate of the search that passes both tests
\* is taken; without one the loop goes on.
TakeFirst(c, candidate, searched, items, valid) ==
  IF valid = {} THEN Continue(c, searched)
  ELSE Take(c, candidate, searched,
            SubSeq(items, 1, CHOOSE j \in valid : \A k \in valid : j <= k),
            CachedReplacement(items[CHOOSE j \in valid : \A k \in valid : j <= k].candidate,
                              candidate))

\* Line 138: the candidates of tryReplacements.
Search(c, candidate, targetSignature, searched, search) ==
  IF search.diverged
  THEN [kind |-> "diverged", out |-> c.rawCandidate, cache |-> c.cacheMap,
        visits |-> Append(c.visits, [searched EXCEPT !.outcome = "diverged"])]
  ELSE TakeFirst(c, candidate, searched, search.items,
                 {j \in 1..Len(search.items) :
                    IsValidReplacement(c.d, candidate, targetSignature,
                                       search.items[j].candidate)})

Found(c, candidate, targetCandidateString, targetSignature, search) ==
  Search(c, candidate, targetSignature,
         Searched(c.i, candidate, targetCandidateString, targetSignature, search), search)

\* Lines 134-138
Signed(c, candidate, targetCandidate, targetCandidateString, targetSignature) ==
  IF NotAString(targetSignature)
  THEN Continue(c, [Visit(c.i, "nosignature", candidate) EXCEPT
                      !.key = targetCandidateString])
  ELSE Found(c, candidate, targetCandidateString, targetSignature,
             tryReplacements(c.d, c.lookup, c.sp, targetSignature, targetCandidate, 0))

\* Lines 122-134: a stored replacement is returned with the variants and
\* the important flag of the candidate; otherwise the signature is computed.
Keyed(c, candidate, targetCandidate, targetCandidateString) ==
  IF targetCandidateString \in DOMAIN c.cacheMap
  THEN [kind |-> "return",
        out |-> DsPrintCandidate(
                  c.d, CacheHitTarget(c.cacheMap[targetCandidateString], candidate)),
        cache |-> c.cacheMap,
        visits |-> Append(c.visits,
                     [Visit(c.i, "hit", candidate) EXCEPT
                        !.key = targetCandidateString,
                        !.replacement = c.cacheMap[targetCandidateString]])]
  ELSE Signed(c, candidate, targetCandidate, targetCandidateString,
              Signature(c.d, targetCandidateString))

\* Lines 111-121
Targeted(c, candidate, targetCandidate) ==
  Keyed(c, candidate, targetCandidate, DsPrintCandidate(c.d, targetCandidate))

\* Lines 104-119
Canonical(c, candidate, canonicalizedCandidate) ==
  IF NeedsCanonicalization(canonicalizedCandidate, c.rawCandidate)
  THEN CanonicalizationStep(canonicalizedCandidate)
         @@ [cache |-> c.cacheMap,
             visits |-> Append(c.visits, Visit(c.i, "canonicalize", candidate))]
  ELSE Targeted(c, candidate, TargetCandidate(candidate))

\* Lines 78-104: one parse of rawCandidate.
Parse(c, readonlyCandidate) ==
  IF ~IsEligible(readonlyCandidate)
  THEN Continue(c, Visit(c.i, "ineligible", readonlyCandidate))
  ELSE Canonical(c, readonlyCandidate, DsPrintCandidate(c.d, readonlyCandidate))

\* Lines 77-167: the loop over the parses of rawCandidate, from parse i on;
\* rawCandidate is returned when the loop ends.
MigrateParses(d, lookup, sp, cacheMap, rawCandidate, parses, i, visits) ==
  IF i > Len(parses)
  THEN [kind |-> "return", out |-> rawCandidate, cache |-> cacheMap, visits |-> visits]
  ELSE Parse([d |-> d, lookup |-> lookup, sp |-> sp, cacheMap |-> cacheMap,
              rawCandidate |-> rawCandidate, parses |-> parses, i |-> i,
              visits |-> visits],
             parses[i])

RECURSIVE migrateArbitraryUtilities(_, _, _, _, _, _)

\* The call returns what its loop returns, or what the call on the canonical
\* text returns.
Returned(d, lookup, sp, cacheMap, frames, r) ==
  IF r.kind = "reenter" /\ Len(frames) <= MaxFuel
  THEN migrateArbitraryUtilities(d, lookup, sp, cacheMap, r.out, frames)
  ELSE [out |-> r.out, cache |-> r.cache, frames |-> frames,
        diverged |-> r.kind # "return"]

Framed(d, lookup, sp, cacheMap, rawCandidate, frames, r) ==
  Returned(d, lookup, sp, cacheMap,
           Append(frames, [raw |-> rawCandidate, visits |-> r.visits]), r)

\* migrateArbitraryUtilities (lines 69-167), with the frames of its
\* canonicalization recursion.
migrateArbitraryUtilities(d, lookup, sp, cacheMap, rawCandidate, frames) ==
  Framed(d, lookup, sp, cacheMap, rawCandidate, frames,
         MigrateParses(d, lookup, sp, cacheMap, rawCandidate,
                       DsParseCandidate(d, rawCandidate), 1, <<>>))

----------------------------------------------------------------------------
(* Design systems and raw candidates of the model *)

Decl(prop, value) == [prop |-> prop, value |-> value]

\* A spacing scale of 4px, one static utility, one colour; the colour
\* utilities take the numeric modifier 50 only.
Standard ==
  [name |-> "standard", prefix |-> "",
   theme |-> ("--spacing" :> <<"4px">>) @@ ("--color-red" :> <<"#f00">>),
   colors |-> <<"red">>, colorModifiers |-> <<"50">>, spacingScale |-> <<"1", "4">>,
   statics |-> <<[name |-> <<"flex">>, css |-> <<Decl("display", <<"flex">>)>>]>>,
   roots |-> <<[root |-> <<"m">>, type |-> "spacing", prop |-> "margin", var |-> ""],
               [root |-> <<"p">>, type |-> "spacing", prop |-> "padding", var |-> ""],
               [root |-> <<"text">>, type |-> "color", prop |-> "color", var |-> ""]>>]

\* No --spacing; two colours of one value; a named modifier; a static
\* utility registered under a name that also reads as an arbitrary property.
Ambiguous ==
  [name |-> "ambiguous", prefix |-> "",
   theme |-> ("--color-red" :> <<"#f00">>) @@ ("--color-rouge" :> <<"#f00">>),
   colors |-> <<"red", "rouge">>, colorModifiers |-> <<"50", "half">>,
   spacingScale |-> <<"1", "4">>,
   statics |-> <<[name |-> <<"[", "display", ":", "flex", "]">>,
                  css |-> <<Decl("display", <<"flex">>)>>]>>,
   roots |-> <<[root |-> <<"m">>, type |-> "spacing", prop |-> "margin", var |-> ""],
               [root |-> <<"text">>, type |-> "color", prop |-> "color", var |-> ""]>>]

\* A prefix; a --spacing that is no dimension; a static utility that sets
\* the variable it reads, one that spells a theme value out, and a
\* functional utility that records its value in a variable of its own.
Prefixed ==
  [name |-> "prefixed", prefix |-> "tw",
   theme |-> ("--spacing" :> <<"auto">>) @@ ("--danger" :> <<"#f00">>),
   colors |-> <<>>, colorModifiers |-> <<>>, spacingScale |-> <<>>,
   statics |-> <<[name |-> <<"brand">>,
                  css |-> <<Decl("--brand", <<"#00f">>),
                            Decl("color", <<"var(", "--brand", ")">>)>>],
                 [name |-> <<"danger">>, css |-> <<Decl("color", <<"#f00">>)>>]>>,
   roots |-> <<[root |-> <<"tone">>, type |-> "tracked", prop |-> "color",
                var |-> "--tw-tone"],
               [root |-> <<"text">>, type |-> "color", prop |-> "color", var |-> ""]>>]

DesignSystems == {Standard, Ambiguous, Prefixed}

Hover(text) == <<"hover", ":">> \o text
Focus(text) == <<"focus", ":">> \o text
Important(text) == text \o <<"!">>
Tw(text) == <<"tw", ":">> \o text

ArbitraryProperty(property, value) == <<"[", property, ":">> \o value \o <<"]">>
ArbitraryValue(root, value) == <<root, "-", "[">> \o value \o <<"]">>
Slash(text, modifier) == text \o <<"/", modifier>>

StandardInputs ==
  {ArbitraryProperty("display", <<"_", "flex", "_">>),
   Hover(Important(ArbitraryProperty("display", <<"_", "flex">>))),
   ArbitraryValue("m", <<"8px">>),
   Focus(Important(ArbitraryValue("m", <<"8px">>))),
   ArbitraryValue("m", <<"8%">>),
   ArbitraryProperty("padding", <<"8px">>),
   Hover(Slash(ArbitraryValue("text", <<"#f00", "_">>), "50")),
   Slash(ArbitraryProperty("color", <<"#0f0">>), "50"),
   Slash(ArbitraryValue("m", <<"8px">>), "50"),
   <<"flex">>, <<"zzz">>}

AmbiguousInputs ==
  {ArbitraryValue("text", <<"#f00">>),
   Hover(Important(ArbitraryValue("text", <<"#f00">>))),
   Slash(ArbitraryValue("text", <<"_", "#f00">>), "50"),
   Slash(ArbitraryProperty("color", <<"#f00">>), "33"),
   ArbitraryValue("m", <<"8px">>),
   Hover(ArbitraryValue("m", <<"8px">>)),
   Slash(ArbitraryValue("m", <<"8px">>), "50"),
   Important(ArbitraryProperty("margin", <<"_", "8px">>)),
   ArbitraryProperty("display", <<"flex">>),
   <<"text", "-", "red">>, <<"hover", ":">>}

PrefixedInputs ==
  {Tw(ArbitraryProperty("color", <<"var(", "--brand", ")">>)),
   Tw(ArbitraryProperty("color", <<"var(", "--danger", ")">>)),
   Tw(ArbitraryProperty("color", <<"#f00">>)),
   Tw(Hover(Important(ArbitraryProperty("color", <<"#f00">>)))),
   Tw(ArbitraryProperty("color", <<"var(", "--tw-tone", ")">>)),
   Tw(Focus(ArbitraryProperty("color", <<"var(", "--tw-tone", ")">>))),
   Tw(Hover(Important(ArbitraryProperty(
        "color", <<"var(", "--x", ",", "_", "var(", "--y", ")", ")">>)))),
   ArbitraryProperty("color", <<"#f00">>),
   Tw(<<"danger">>)}

Inputs(d) ==
  CASE d.name = "standard" -> StandardInputs
    [] d.name = "ambiguous" -> AmbiguousInputs
    [] OTHER -> PrefixedInputs

----------------------------------------------------------------------------
(* The state machine: one design system, calls one after another *)

NoCall ==
  [called |-> FALSE, second |-> FALSE, source |-> <<>>, input |-> <<>>, out |-> <<>>,
   frames |-> <<>>, diverged |-> FALSE]

Init ==
  /\ ds \in DesignSystems
  /\ preComputedUtilities = [built |-> FALSE, lookup |-> <<>>]
  /\ spacing = [built |-> FALSE, table |-> FALSE, value |-> 0, unit |-> ""]
  /\ baseReplacementsCache = <<>>
  /\ last = NoCall

\* Line 219 runs when the generator is driven into the derivation step.
ReachedSpacing(result) ==
  \E f \in 1..Len(result.frames) : \E v \in 1..Len(result.frames[f].visits) :
    LET visit == result.frames[f].visits[v]
    IN  \/ visit.outcome = "exhausted" /\ visit.derived
        \/ /\ visit.outcome = "accepted"
           /\ \E j \in 1..Len(visit.tried) : visit.tried[j].origin # "bucket"

\* The state a call leaves: the index is built on the first call, the spacing
\* table when the search first reaches the derivation, the cache is what the
\* call made of it.
Leave(rawCandidate, second, lookup, result) ==
  /\ preComputedUtilities' = [built |-> TRUE, lookup |-> lookup]
  /\ spacing' = IF ReachedSpacing(result)
                THEN [built |-> TRUE] @@ ComputeSpacing(ds)
                ELSE spacing
  /\ baseReplacementsCache' = result.cache
  /\ last' = [called |-> TRUE, second |-> second,
              source |-> IF second THEN last.input ELSE <<>>,
              input |-> rawCandidate,
              out |-> result.out, frames |-> result.frames,
              diverged |-> result.diverged]
  /\ UNCHANGED ds

Run(rawCandidate, second, lookup) ==
  Leave(rawCandidate, second, lookup,
        migrateArbitraryUtilities(ds, lookup, ComputeSpacing(ds), baseReplacementsCache,
                                  rawCandidate, <<>>))

\* One call migrateArbitraryUtilities(designSystem, _userConfig, rawCandidate).
Call(rawCandidate, second) ==
  Run(rawCandidate, second,
      IF preComputedUtilities.built THEN preComputedUtilities.lookup
      ELSE ComputeUtilities(ds))

\* A raw candidate of the template being migrated.
Migrate == \E rawCandidate \in Inputs(ds) : Call(rawCandidate, FALSE)

\* The output of the last call migrated again (a second run of the upgrade).
Remigrate == last.called /\ Call(last.out, TRUE)

Next == Migrate \/ Remigrate

Spec == Init /\ [][Next]_vars

----------------------------------------------------------------------------
(* What the properties below speak about *)

\* The frames of the last call with their parses, one pair per parse the
\* loop reached.
Visited ==
  UNION {{<<f, v>> : v \in 1..Len(last.frames[f].visits)} : f \in 1..Len(last.frames)}

VisitAt(fv) == last.frames[fv[1]].visits[fv[2]]

FinalFrame == last.frames[Len(last.frames)]

FinalVisit == FinalFrame.visits[Len(FinalFrame.visits)]

\* The last call returned a replacement, found by search or read from the
\* cache.
Rewrote ==
  /\ last.called
  /\ FinalFrame.visits # <<>>
  /\ FinalVisit.outcome \in {"accepted", "hit"}

\* A token in base form: no variants, no important flag.
BaseText(d, c) == DsPrintCandidate(d, [c EXCEPT !.variants = <<>>, !.important = FALSE])

\* An arbitrary property or a functional utility with an arbitrary value.
EligibleReading(c) ==
  c.kind = "arbitrary" \/ (c.kind = "functional" /\ c.value.kind = "arbitrary")

\* The outcomes after which the loop goes on to the next parse.
Skipped == {"ineligible", "nosignature", "exhausted"}

----------------------------------------------------------------------------
(* C1 *)

\* C1 (signature preservation): whenever a call returns a replacement, by
\* search or from the cache, the returned text read back and put in base form
\* has a string signature equal to the signature of the base form of the
\* original token.
SignaturePreserved ==
  Rewrote =>
    LET target == Signature(ds, BaseText(ds, FinalVisit.candidate))
        readings == DsParseCandidate(ds, last.out)
    IN  /\ target # NoSignature
        /\ readings # <<>>
        /\ \A i \in 1..Len(readings) : Signature(ds, BaseText(ds, readings[i])) = target

\* A token with variants is rewritten to another text from the cache.
SignaturePreservedWitness ==
  /\ Rewrote
  /\ FinalVisit.outcome = "hit"
  /\ FinalVisit.candidate.variants # <<>>
  /\ last.out # last.input

----------------------------------------------------------------------------
(* C2 *)

\* The first argument of every var(...) of the value of a token.
OriginalVariables(c) ==
  {c.value.value[i + 1] :
     i \in {j \in 1..(Len(c.value.value) - 1) : c.value.value[j] = "var("}}

RefersTo(decls, x) ==
  \E k \in 1..Len(decls) : \E j \in 1..(Len(decls[k].value) - 1) :
    decls[k].value[j] = "var(" /\ decls[k].value[j + 1] = x

SetsVariable(decls, x) == \E k \in 1..Len(decls) : decls[k].prop = x

\* C2 (variable preservation): whenever a call returns a replacement for a
\* token whose value uses var(--x), the declarations of the replacement refer
\* to --x and none of them sets --x.
VariablesPreserved ==
  Rewrote =>
    \A x \in OriginalVariables(FinalVisit.candidate) :
      LET decls == Declarations(ds, last.out)
      IN  RefersTo(decls, x) /\ ~SetsVariable(decls, x)

\* A token that uses a variable is rewritten to another text; a candidate
\* that sets the variable was passed over on the way.
VariablesPreservedWitness ==
  /\ Rewrote
  /\ OriginalVariables(FinalVisit.candidate) # {}
  /\ last.out # last.input
  /\ FinalVisit.outcome = "accepted"
  /\ \E j \in 1..Len(FinalVisit.tried) :
       \E x \in OriginalVariables(FinalVisit.candidate) :
         SetsVariable(Declarations(ds, DsPrintCandidate(ds, FinalVisit.tried[j].candidate)), x)

----------------------------------------------------------------------------
(* C3 *)

\* The texts the catalog of pre-computed utilities holds: every class name,
\* and every class name with each of its modifiers that is no number.
CatalogEntries(d) ==
  UNION {{ClassList(d)[i].name} \cup
         {ClassList(d)[i].name \o <<"/", ClassList(d)[i].modifiers[j]>> :
            j \in {k \in 1..Len(ClassList(d)[i].modifiers) :
                     ~IsValidSpacingMultiplier(ClassList(d)[i].modifiers[k])}} :
         i \in 1..Len(ClassList(d))}

CatalogCount(d, signature) ==
  Cardinality({e \in CatalogEntries(d) : Signature(d, e) = signature})

\* A parse the loop reached in canonical form whose base signature is the
\* signature of two or more catalog entries.
AmbiguousVisit(fv) ==
  LET c == VisitAt(fv).candidate
      signature == Signature(ds, BaseText(ds, c))
  IN  /\ EligibleReading(c)
      /\ DsPrintCandidate(ds, c) = last.frames[fv[1]].raw
      /\ signature # NoSignature
      /\ CatalogCount(ds, signature) >= 2

\* C3 (non-ambiguity): a token whose base signature belongs to two or more
\* catalog entries gets no replacement: in every cache state its search
\* yields no candidate, it is never served from the cache, nothing is cached
\* for it, and when no other parse of the text produces a result the text is
\* returned as it was.
AmbiguousBucketNoRewrite ==
  last.called =>
    \A fv \in Visited :
      AmbiguousVisit(fv) =>
        /\ VisitAt(fv).outcome = "exhausted"
        /\ VisitAt(fv).tried = <<>>
        /\ BaseText(ds, VisitAt(fv).candidate) \notin DOMAIN baseReplacementsCache
        /\ (\A w \in 1..Len(last.frames[fv[1]].visits) :
              last.frames[fv[1]].visits[w].outcome \in Skipped)
             => last.out = last.frames[fv[1]].raw

\* A token with variants and the important flag, whose base signature two
\* catalog entries share, comes back unchanged while the cache holds
\* replacements of other tokens.
AmbiguousBucketNoRewriteWitness ==
  /\ last.called
  /\ baseReplacementsCache # <<>>
  /\ \E fv \in Visited :
       /\ AmbiguousVisit(fv)
       /\ VisitAt(fv).candidate.variants # <<>>
       /\ VisitAt(fv).candidate.important
  /\ last.out = last.input

----------------------------------------------------------------------------
(* C4 *)

IsText(text) == \A i \in 1..Len(text) : text[i] \in STRING

\* No parse of the text of a frame can be migrated: each is ineligible, or
\* has no string signature, or was searched without a valid candidate.
NoMigration(frame) ==
  LET parses == DsParseCandidate(ds, frame.raw)
  IN  \A i \in 1..Len(parses) :
        \/ ~EligibleReading(parses[i])
        \/ Signature(ds, BaseText(ds, parses[i])) = NoSignature
        \/ i <= Len(frame.visits) /\ frame.visits[i].outcome = "exhausted"

\* C4 (no-op returns input): every call returns a text; when the text has no
\* parse, no eligible parse, no string signature, or no valid candidate, the
\* call returns the text it was handling, which is the input itself unless
\* the input was first replaced by its canonical form.
NoOpReturnsInput ==
  last.called =>
    /\ ~last.diverged
    /\ IsText(last.out) /\ last.out # <<>>
    /\ (NoMigration(FinalFrame) => last.out = FinalFrame.raw)
    /\ (NoMigration(FinalFrame) /\ Len(last.frames) = 1 => last.out = last.input)

\* A token with a modifier whose base form has no string signature comes
\* back unchanged.
NoOpReturnsInputWitness ==
  /\ last.called
  /\ Len(last.frames) = 1
  /\ FinalFrame.visits # <<>>
  /\ FinalVisit.outcome = "nosignature"
  /\ FinalVisit.candidate.modifier.kind # "none"
  /\ last.out = last.input

----------------------------------------------------------------------------
(* C5 *)

\* C5 (idempotence): migrating the output of a call again returns it
\* unchanged.
Idempotent == last.second => last.out = last.input

\* The first pass turned a token that was not in canonical form into a
\* functional utility with an arbitrary value; the second pass searched for
\* that utility, or found it in the cache, and returned it as it was.
IdempotentWitness ==
  /\ last.second
  /\ last.source # last.input
  /\ \E i \in 1..Len(last.source) : last.source[i] = "_"
  /\ Rewrote
  /\ FinalVisit.candidate.kind = "functional"
  /\ last.out = last.input

----------------------------------------------------------------------------
(* C6 *)

\* What a call on the text returns when nothing has been cached.
ColdOut(rawCandidate) ==
  migrateArbitraryUtilities(ds, preComputedUtilities.lookup, ComputeSpacing(ds), <<>>,
                            rawCandidate, <<>>).out

\* C6 (determinism across cache states): whatever calls came before, a call
\* returns the text a search with an empty cache returns for the same token;
\* a cache hit carries the variants and the important flag of the current
\* token.
Deterministic == last.called => last.out = ColdOut(last.input)

\* A cache hit on an entry that a token with other variants stored.
DeterministicWitness ==
  /\ Rewrote
  /\ FinalVisit.outcome = "hit"
  /\ FinalVisit.replacement.variants # FinalVisit.candidate.variants
  /\ FinalVisit.replacement.important # FinalVisit.candidate.important

----------------------------------------------------------------------------
(* C7 *)

\* C7 (the cache holds base replacements only): every entry of the cache is
\* stored under the text of a base token and is itself a token without
\* variants and without the important flag.
CacheHoldsBaseReplacements ==
  \A key \in DOMAIN baseReplacementsCache :
    /\ baseReplacementsCache[key].variants = <<>>
    /\ baseReplacementsCache[key].important = FALSE

\* The entry a search stored carries the variants and the important flag of
\* the token that was being migrated.
CacheCarriesVariants ==
  /\ Rewrote
  /\ FinalVisit.outcome = "accepted"
  /\ FinalVisit.candidate.variants # <<>>
  /\ FinalVisit.candidate.important
  /\ baseReplacementsCache[FinalVisit.key].variants = FinalVisit.candidate.variants
  /\ baseReplacementsCache[FinalVisit.key].important

----------------------------------------------------------------------------
(* C8 *)

\* Printing is idempotent on a text: each of its parses prints back to it.
PrintsBack(text) ==
  \A i \in 1..Len(DsParseCandidate(ds, text)) :
    DsPrintCandidate(ds, DsParseCandidate(ds, text)[i]) = text

\* The candidates one search can yield: six texts per functional root at
\* each of the two levels, or one catalog entry, each text with two parses at
\* most.
MaxCandidates(d) == 2 * (12 * Len(d.roots) + 1)

\* C8 (termination): every call returns. With a printer that is idempotent on
\* the canonical text, the call re-enters itself at most once; the search
\* that strips the modifier goes one level deep at most; the candidates of a
\* search are finitely many.
Terminates ==
  last.called =>
    /\ ~last.diverged
    /\ (\A f \in 2..Len(last.frames) : PrintsBack(last.frames[f].raw))
         => Len(last.frames) <= 2
    /\ \A fv \in Visited :
         /\ VisitAt(fv).depth <= 1
         /\ Len(VisitAt(fv).tried) <= MaxCandidates(ds)

\* A call that re-entered itself on the canonical text and then searched
\* one level deep with the modifier stripped.
TerminatesWitness ==
  /\ last.called
  /\ Len(last.frames) = 2
  /\ \E fv \in Visited : VisitAt(fv).depth = 1 /\ VisitAt(fv).outcome = "accepted"

----------------------------------------------------------------------------
(* C9 *)

----------------------------------------------------------------------------
(* C10 *)

\* The spacing resolver returns a number for a value: the design system has
\* a --spacing that is a dimension and the value is a dimension of its unit.
ResolverReturnsNumber(d, value) ==
  /\ "--spacing" \in DOMAIN d.theme
  /\ Dimensions(d.theme["--spacing"][1]) # Null
  /\ Len(value) = 1
  /\ Dimensions(value[1]) # Null
  /\ Dimensions(value[1])[2] = Dimensions(d.theme["--spacing"][1])[2]

\* C10 (spacing derivation): a candidate derived from the spacing multiplier
\* is tried only when the resolver returns a number for the value; when the
\* resolver is absent or returns null no such candidate is tried.
SpacingOnlyFromNumber ==
  last.called =>
    \A fv \in Visited : \A j \in 1..Len(VisitAt(fv).tried) :
      VisitAt(fv).tried[j].origin \in {"spacing", "spacingModifier"}
        => ResolverReturnsNumber(ds, VisitAt(fv).candidate.value.value)

\* Without a spacing resolver a candidate was derived from the multiplier.
SpacingFromUndefined ==
  /\ last.called
  /\ ~ComputeSpacing(ds).table
  /\ \E fv \in Visited : \E j \in 1..Len(VisitAt(fv).tried) :
       /\ VisitAt(fv).tried[j].origin = "spacing"
       /\ VisitAt(fv).tried[j].candidate.value.value = <<Undefined>>
====
